---- MODULE Spec2Model ----
(***************************************************************************)
(* Model of src/server/server.js: the startup credential check, the        *)
(* POST /api/treatment handler and the external generation call it awaits. *)
(*                                                                         *)
(* JavaScript values are tagged records (field t is the type tag).  A JSON *)
(* text is the sequence of its lexemes, so that JSON.parse is a parser and *)
(* not the identity.  A response body is a record of JavaScript values in  *)
(* which Undefined stands for a key that is absent on the wire             *)
(* (JSON.stringify drops keys whose value is undefined).                   *)
(*                                                                         *)
(* req.body is taken to be the object express.json() parsed; requests that *)
(* body-parser rejects never reach the handler.  Whether a request can     *)
(* reach the handler with req.body undefined depends on the express        *)
(* version, which the repository does not pin: the destructuring is        *)
(* modelled for that case too, but Bodies holds parsed objects only.       *)
(*                                                                         *)
(* pc = "escaped" is a handler whose promise rejected without a response.  *)
(* The host drops that promise.  The Node runtime deals with the unhandled *)
(* rejection when the turn of the event loop ends, after the continuations *)
(* already due in that turn have run: depending on its version and flags   *)
(* it either only warns and the process goes on, or it ends the process    *)
(* (exit code 1) and every request still in flight is never answered.      *)
(* Both outcomes are explored.                                             *)
(* The text of a SyntaxError's message is the JavaScript engine's and      *)
(* differs between engine versions: the process runs on one engine, fixed  *)
(* when it starts, and the message is computed from the text as that       *)
(* engine words it.                                                        *)
(***************************************************************************)
EXTENDS Integers, Sequences, FiniteSets

VARIABLES apiKey, engine, proc, unhandled, client, body, pc, calls, settled, responses

vars == <<apiKey, engine, proc, unhandled, client, body, pc, calls, settled, responses>>

\* Number of requests that may be in flight together.
MaxReqs == 2

Reqs == 1..MaxReqs

-----------------------------------------------------------------------------
(* JavaScript values *)

Undefined == [t |-> "undefined"]
Null == [t |-> "null"]
Str(s) == [t |-> "string", s |-> s]
Num(n) == [t |-> "number", n |-> n]
Bool(b) == [t |-> "boolean", b |-> b]
Arr(a) == [t |-> "array", a |-> a]
Obj(o) == [t |-> "object", o |-> o]
Err(m) == [t |-> "error", message |-> m]
Text(toks) == [t |-> "text", toks |-> toks]

Entry(k, v) == [k |-> k, v |-> v]

\* The mutant of ToBoolean: only undefined and null are falsy.
ToBooleanNullishOnly(v) == v.t \notin {"undefined", "null"}

\* JavaScript truthiness, as the ! operator applies it.
ToBoolean(v) ==
  CASE v.t = "undefined" -> FALSE
    [] v.t = "null" -> FALSE
    [] v.t = "string" -> v.s # ""
    [] v.t = "text" -> v.toks # <<>>
    [] v.t = "number" -> v.n # 0
    [] v.t = "boolean" -> v.b
    [] OTHER -> TRUE

HasKey(o, k) == \E i \in 1..Len(o) : o[i].k = k

Returned(v) == [throws |-> FALSE, v |-> v, error |-> Undefined]
Thrown(e) == [throws |-> TRUE, v |-> Undefined, error |-> e]

\* const { k } = v: TypeError when v is undefined or null, else the value of
\* own key k of a parsed JSON object, else undefined.
GetProp(v, k) ==
  IF v.t \in {"undefined", "null"}
    THEN Thrown(Err("Cannot destructure property '" \o k \o "' of 'req.body' as it is "
                    \o v.t \o "."))
  ELSE IF v.t = "object" /\ HasKey(v.o, k)
    THEN Returned(v.o[CHOOSE i \in 1..Len(v.o) : v.o[i].k = k].v)
  ELSE Returned(Undefined)

Digit(d) == <<"0", "1", "2", "3", "4", "5", "6", "7", "8", "9">>[d + 1]

RECURSIVE NumberToString(_)
NumberToString(n) ==
  IF n < 0 THEN "-" \o NumberToString(0 - n)
  ELSE IF n < 10 THEN Digit(n)
  ELSE NumberToString(n \div 10) \o Digit(n % 10)

Converted(s) == [throws |-> FALSE, s |-> s]
CannotConvert == [throws |-> TRUE, s |-> ""]

\* ToString as template-literal interpolation applies it.  An object parsed
\* from JSON whose own "toString" key shadows Object.prototype.toString has
\* no callable toString and a valueOf that returns the object: TypeError.
RECURSIVE ToString(_)
RECURSIVE Join(_)
ToString(v) ==
  CASE v.t = "string" -> Converted(v.s)
    [] v.t = "number" -> Converted(NumberToString(v.n))
    [] v.t = "boolean" -> Converted(IF v.b THEN "true" ELSE "false")
    [] v.t = "null" -> Converted("null")
    [] v.t = "undefined" -> Converted("undefined")
    [] v.t = "array" -> Join(v.a)
    [] v.t = "object" ->
         IF HasKey(v.o, "toString") THEN CannotConvert
         ELSE Converted("[object Object]")
    [] OTHER -> CannotConvert

\* Array.prototype.join(","): null and undefined elements give "".
Join(a) ==
  IF a = <<>> THEN Converted("")
  ELSE LET h == IF a[1].t \in {"undefined", "null"} THEN Converted("")
                ELSE ToString(a[1])
           r == Join(Tail(a))
       IN IF h.throws \/ r.throws THEN CannotConvert
          ELSE IF Len(a) = 1 THEN h
          ELSE Converted(h.s \o "," \o r.s)

-----------------------------------------------------------------------------
(* JSON text and JSON.parse *)

Punct(c) == [k |-> c]
TStr(s) == [k |-> "str", s |-> s]
TNum(n) == [k |-> "num", n |-> n]
TLit(w) == [k |-> "lit", s |-> w]
TJunk == [k |-> "junk"]
TWs == [k |-> "ws"]

\* The text of a lexeme.  A string lexeme holds characters that need no
\* escape; TJunk is the word junk and TWs one space.
Lexeme(tok) ==
  CASE tok.k = "str" -> "\"" \o tok.s \o "\""
    [] tok.k = "num" -> NumberToString(tok.n)
    [] tok.k = "lit" -> tok.s
    [] tok.k = "junk" -> "junk"
    [] tok.k = "ws" -> " "
    [] OTHER -> tok.k

\* The string a lexeme sequence stands for.
RECURSIVE SourceText(_)
SourceText(toks) ==
  IF toks = <<>> THEN "" ELSE Lexeme(Head(toks)) \o SourceText(Tail(toks))

Parsed(v, rest) == [ok |-> TRUE, v |-> v, rest |-> rest, expected |-> ""]
\* A syntax error: rest starts at the offending lexeme (empty at the end of
\* the input), expected names what the parser was looking for.
Unexpected(rest, expected) ==
  [ok |-> FALSE, v |-> Undefined, rest |-> rest, expected |-> expected]

IsDigit(c) == \E d \in 0..9 : Digit(d) = c
DigitValue(c) == CHOOSE d \in 0..9 : Digit(d) = c

RECURSIVE AllDigits(_)
AllDigits(s) == s = "" \/ (IsDigit(Head(s)) /\ AllDigits(Tail(s)))

\* a < b for digit strings of one length.
RECURSIVE DigitsLess(_, _)
DigitsLess(a, b) ==
  IF a = "" THEN FALSE
  ELSE IF Head(a) = Head(b) THEN DigitsLess(Tail(a), Tail(b))
  ELSE DigitValue(Head(a)) < DigitValue(Head(b))

\* a < b for canonical decimal strings.
IndexLess(a, b) == Len(a) < Len(b) \/ (Len(a) = Len(b) /\ DigitsLess(a, b))

\* An array index: the canonical decimal string of an integer in 0 .. 2^32 - 2.
IsArrayIndex(k) ==
  /\ k # ""
  /\ AllDigits(k)
  /\ Len(k) = 1 \/ Head(k) # "0"
  /\ IndexLess(k, "4294967295")

\* Object construction while parsing, in the own-key order JavaScript keeps:
\* array-index keys first, in ascending numeric order, then the other keys in
\* insertion order; a repeated key keeps its position and takes the last value.
PutMember(o, k, v) ==
  IF HasKey(o, k)
    THEN [i \in 1..Len(o) |-> IF o[i].k = k THEN Entry(k, v) ELSE o[i]]
  ELSE IF IsArrayIndex(k)
    THEN LET below == Cardinality({i \in 1..Len(o) :
                                     IsArrayIndex(o[i].k) /\ IndexLess(o[i].k, k)})
         IN SubSeq(o, 1, below) \o <<Entry(k, v)>> \o SubSeq(o, below + 1, Len(o))
  ELSE Append(o, Entry(k, v))

RECURSIVE ParseValue(_)
RECURSIVE ParseElements(_, _)
RECURSIVE ParseMembers(_, _)

\* One JSON value at the head of the lexeme sequence ts.
ParseValue(ts) ==
  IF ts = <<>> THEN Unexpected(ts, "value")
  ELSE LET h == Head(ts)
           r == Tail(ts)
       IN CASE h.k = "str" -> Parsed(Str(h.s), r)
            [] h.k = "num" -> Parsed(Num(h.n), r)
            [] h.k = "lit" ->
                 Parsed(IF h.s = "true" THEN Bool(TRUE)
                        ELSE IF h.s = "false" THEN Bool(FALSE)
                        ELSE Null, r)
            [] h.k = "[" ->
                 IF r # <<>> /\ Head(r).k = "]" THEN Parsed(Arr(<<>>), Tail(r))
                 ELSE ParseElements(r, <<>>)
            [] h.k = "{" ->
                 IF r # <<>> /\ Head(r).k = "}" THEN Parsed(Obj(<<>>), Tail(r))
                 ELSE ParseMembers(r, <<>>)
            [] OTHER -> Unexpected(ts, "value")

\* The elements of an array after "[" or ",", acc the elements read so far.
ParseElements(ts, acc) ==
  LET e == ParseValue(ts)
  IN IF ~e.ok THEN e
     ELSE IF e.rest = <<>> THEN Unexpected(e.rest, "commaOrBracket")
     ELSE IF Head(e.rest).k = "," THEN ParseElements(Tail(e.rest), Append(acc, e.v))
     ELSE IF Head(e.rest).k = "]" THEN Parsed(Arr(Append(acc, e.v)), Tail(e.rest))
     ELSE Unexpected(e.rest, "commaOrBracket")

\* The members of an object after "{" or ",", acc the members read so far
\* (empty exactly after "{").
ParseMembers(ts, acc) ==
  IF ts = <<>> \/ ts[1].k # "str"
    THEN Unexpected(ts, IF acc = <<>> THEN "nameOrBrace" ELSE "name")
  ELSE IF Len(ts) < 2 \/ ts[2].k # ":"
    THEN Unexpected(Tail(ts), IF acc = <<>> THEN "colon" ELSE "laterColon")
  ELSE LET m == ParseValue(Tail(Tail(ts)))
       IN IF ~m.ok THEN m
          ELSE IF m.rest = <<>> THEN Unexpected(m.rest, "commaOrBrace")
          ELSE IF Head(m.rest).k = ","
            THEN ParseMembers(Tail(m.rest), PutMember(acc, ts[1].s, m.v))
          ELSE IF Head(m.rest).k = "}"
            THEN Parsed(Obj(PutMember(acc, ts[1].s, m.v)), Tail(m.rest))
          ELSE Unexpected(m.rest, "commaOrBrace")

IsNotWs(tok) == tok.k # "ws"

\* Exactly one value, whitespace skipped: anything after it is a syntax error.
ParseText(toks) ==
  LET p == ParseValue(SelectSeq(toks, IsNotWs))
  IN IF p.ok /\ p.rest # <<>> THEN Unexpected(p.rest, "end") ELSE p

\* The offset in the text of toks of its (n+1)-th lexeme that is not
\* whitespace; the length of the text when it has no such lexeme.
RECURSIVE Offset(_, _)
Offset(toks, n) ==
  IF toks = <<>> THEN 0
  ELSE IF Head(toks).k = "ws" THEN Len(Lexeme(Head(toks))) + Offset(Tail(toks), n)
  ELSE IF n = 0 THEN 0
  ELSE Len(Lexeme(Head(toks))) + Offset(Tail(toks), n - 1)

\* The position the parser stopped at with rest left: the offset of the
\* offending lexeme.
ErrorPosition(toks, rest) == Offset(toks, Len(SelectSeq(toks, IsNotWs)) - Len(rest))

\* The engines a process may run on, by the Node release that carries them.
\* Node 16 words its messages as Node 18 does.
Engines == {"node18", "node20", "node22"}

\* Characters of the text quoted on either side of an unexpected token.
MaxContextCharacters == 10

\* " at position p", with the line and column where the engine gives them;
\* the texts here have one line.
AtPosition(e, pos) ==
  " at position " \o NumberToString(pos)
    \o (IF e = "node22"
          THEN " (line 1 column " \o NumberToString(pos + 1) \o ")" ELSE "")

\* What the parser was looking for, as Node 20 and later say it.
Expectation(expected) ==
  CASE expected = "nameOrBrace" -> "Expected property name or '}' in JSON"
    [] expected = "name" -> "Expected double-quoted property name in JSON"
    [] expected \in {"colon", "laterColon"} ->
         "Expected ':' after property name in JSON"
    [] expected = "commaOrBrace" -> "Expected ',' or '}' after property value in JSON"
    [] expected = "commaOrBracket" -> "Expected ',' or ']' after array element in JSON"
    [] expected = "end" -> "Unexpected non-whitespace character after JSON"

\* The text quoted around position pos: all of a short text, else at most
\* MaxContextCharacters on either side, with "..." where text is left out.
Context(src, pos) ==
  IF Len(src) < 2 * MaxContextCharacters + 1 THEN "\"" \o src \o "\""
  ELSE IF pos < MaxContextCharacters
    THEN "\"" \o SubSeq(src, 1, pos + MaxContextCharacters) \o "\"..."
  ELSE IF pos < Len(src) - MaxContextCharacters
    THEN "...\"" \o SubSeq(src, pos - MaxContextCharacters + 1,
                           pos + MaxContextCharacters) \o "\"..."
  ELSE "...\"" \o SubSeq(src, pos - MaxContextCharacters + 1, Len(src)) \o "\""

\* The message named after the offending lexeme alone: rest starts at it, pos
\* is its offset in the text src.
UnexpectedToken(e, rest, pos, src) ==
  IF rest = <<>> THEN "Unexpected end of JSON input"
  ELSE IF Head(rest).k = "num" THEN "Unexpected number in JSON" \o AtPosition(e, pos)
  ELSE IF Head(rest).k = "str" THEN "Unexpected string in JSON" \o AtPosition(e, pos)
  ELSE IF e = "node18"
    THEN "Unexpected token " \o Head(Lexeme(Head(rest))) \o " in JSON"
           \o AtPosition(e, pos)
  ELSE "Unexpected token '" \o Head(Lexeme(Head(rest))) \o "', "
         \o Context(src, pos) \o " is not valid JSON"

\* The message engine e gives the SyntaxError for the text toks, f the syntax
\* error found in it.  Node 18 names the offending lexeme; Node 20 and later
\* say what was expected wherever the parser expected something other than a
\* value, except that Node 20 names the offending lexeme where the ":" of a
\* member after the first is missing.
SyntaxErrorMessage(e, toks, f) ==
  IF \/ e = "node18"
     \/ f.expected = "value"
     \/ e = "node20" /\ f.expected = "laterColon"
    THEN UnexpectedToken(e, f.rest, ErrorPosition(toks, f.rest), SourceText(toks))
    ELSE Expectation(f.expected) \o AtPosition(e, ErrorPosition(toks, f.rest))

\* The SyntaxError JSON.parse throws; message is the text the engine gives it.
SyntaxError(message) == Err(message)

\* The mutant of JSONparse: a parser that swallows a syntax error and gives null.
JSONparseLenient(toks, e) ==
  LET p == ParseText(toks)
  IN IF p.ok THEN Returned(p.v) ELSE Returned(Null)

\* JSON.parse on engine e: the value, else a SyntaxError with e's message.
JSONparse(toks, e) ==
  LET p == ParseText(toks)
  IN IF p.ok THEN Returned(p.v)
     ELSE Thrown(SyntaxError(SyntaxErrorMessage(e, toks, p)))

-----------------------------------------------------------------------------
(* The external generation capability: what generateContent may settle with *)

Rating(blocked) == [blocked |-> blocked]
Part(hasText, toks) == [hasText |-> hasText, text |-> Text(toks)]
Candidate(hasContent, parts, ratings) ==
  [t |-> "candidate", hasContent |-> hasContent, parts |-> parts,
   safetyRatings |-> ratings]
Response(cands) == [t |-> "response", candidates |-> cands]

Resolve(v) == [kind |-> "resolve", value |-> v]
Reject(e) == [kind |-> "reject", value |-> e]
Pending == [kind |-> "pending"]

\* A reply whose first candidate carries the JSON text toks.
TextReply(toks) == Response(<<Candidate(TRUE, <<Part(TRUE, toks)>>, <<>>)>>)
\* A reply whose first candidate has no content and the given safety ratings.
NoTextReply(ratings) == Response(<<Candidate(FALSE, <<>>, ratings)>>)

Member(k, tok) == <<TStr(k), Punct(":"), tok>>
Comma == <<Punct(",")>>

RECURSIVE StringList(_)
StringList(n) ==
  IF n = 0 THEN <<>>
  ELSE IF n = 1 THEN <<TStr("p1")>>
  ELSE StringList(n - 1) \o Comma \o <<TStr("p" \o NumberToString(n))>>

\* { "organic": .., "biological": .., "chemical": .., "prevention": [n strings] }
TreatmentText(n) ==
  <<Punct("{")>> \o Member("organic", TStr("neem oil")) \o Comma
    \o Member("biological", TStr("bacillus")) \o Comma
    \o Member("chemical", TStr("sulfur")) \o Comma
    \o <<TStr("prevention"), Punct(":"), Punct("[")>> \o StringList(n)
    \o <<Punct("]"), Punct("}")>>

OnlyOrganicText == <<Punct("{")>> \o Member("organic", TStr("neem oil")) \o <<Punct("}")>>
TruncatedText == <<Punct("{")>> \o Member("organic", TStr("neem oil")) \o Comma
ProseText == <<TJunk, TWs, TJunk>>
MissingColonText ==
  <<Punct("{")>> \o Member("organic", TStr("neem oil")) \o Comma
    \o <<TStr("biological"), Punct("}")>>
TrailingJunkText == <<TLit("null"), TWs, TJunk>>

\* The settlements of the external call the model explores.
Outcomes ==
  { Resolve(TextReply(TreatmentText(5))),
    Resolve(TextReply(TreatmentText(4))),
    Resolve(TextReply(OnlyOrganicText)),
    Resolve(TextReply(<<TLit("null")>>)),
    Resolve(TextReply(TruncatedText)),
    Resolve(TextReply(ProseText)),
    Resolve(TextReply(MissingColonText)),
    Resolve(TextReply(TrailingJunkText)),
    Resolve(TextReply(<<>>)),
    Resolve(Response(<<>>)),
    Resolve(Response(<<Candidate(TRUE, <<Part(FALSE, <<>>)>>, <<>>)>>)),
    Resolve(NoTextReply(<<Rating(TRUE)>>)),
    Resolve(NoTextReply(<<Rating(FALSE), Rating(TRUE)>>)),
    Resolve(Undefined),
    Reject(Err("429 quota exceeded")),
    Reject(Str("boom")),
    Reject(Null) }

-----------------------------------------------------------------------------
(* The handler *)

treatmentSchema ==
  [type |-> "OBJECT",
   properties |-> [organic |-> "STRING", biological |-> "STRING",
                   chemical |-> "STRING", prevention |-> "ARRAY of STRING"],
   required |-> <<"organic", "biological", "chemical", "prevention">>]

\* res.status(status).json(obj): a key whose value is Undefined is not sent.
ResJson(status, error, details, dis, dat) ==
  [status |-> status,
   body |-> [error |-> error, details |-> details, disease |-> dis, data |-> dat]]

\* The template literal of the prompt; the interpolation may throw.
prompt(d) ==
  LET name == ToString(d)
  IN [throws |-> name.throws,
      s |-> "\n    You are a professional plant pathologist AI. Provide the "
            \o "comprehensive treatment and prevention information for the "
            \o "plant disease \"" \o name.s \o "\".\n  "]

\* The mutant of IssueCalls: the request is sent twice.
IssueCallsTwice(contents) ==
  LET args == [model |-> "gemini-2.5-flash", contents |-> contents,
               temperature |-> <<3, 10>>, responseMimeType |-> "application/json",
               responseSchema |-> treatmentSchema]
  IN <<args, args>>

\* The generateContent calls the handler issues: one, with these arguments.
IssueCalls(contents) ==
  <<[model |-> "gemini-2.5-flash", contents |-> contents,
     temperature |-> <<3, 10>>, responseMimeType |-> "application/json",
     responseSchema |-> treatmentSchema]>>

\* The handler from its entry to the await: validation, prompt, call.
\* d is the outcome of the destructuring at its first line.
HandlerSync(d) ==
  IF d.throws
    THEN [pc |-> "escaped", calls |-> <<>>, responses |-> <<>>]
  ELSE IF ~ToBoolean(d.v)
    THEN [pc |-> "done", calls |-> <<>>,
          responses |-> <<ResJson(400, Str("Disease name is required."),
                                  Undefined, Undefined, Undefined)>>]
  ELSE IF prompt(d.v).throws
    THEN [pc |-> "escaped", calls |-> <<>>, responses |-> <<>>]
  ELSE [pc |-> "awaiting", calls |-> IssueCalls(prompt(d.v).s), responses |-> <<>>]

\* response.candidates?.[0]
candidate(response) ==
  IF response.t # "response" THEN Undefined
  ELSE IF Len(response.candidates) = 0 THEN Undefined
  ELSE response.candidates[1]

\* candidate?.content?.parts?.[0]?.text
jsonString(response) ==
  LET c == candidate(response)
  IN IF c = Undefined THEN Undefined
     ELSE IF ~c.hasContent THEN Undefined
     ELSE IF Len(c.parts) = 0 THEN Undefined
     ELSE IF ~c.parts[1].hasText THEN Undefined
     ELSE c.parts[1].text

\* candidate?.safetyRatings?.[0]?.blocked ? ... : ...
blockReason(response) ==
  LET c == candidate(response)
  IN IF c # Undefined /\ Len(c.safetyRatings) > 0 /\ c.safetyRatings[1].blocked
       THEN "Response blocked by safety settings."
       ELSE "Empty response or no text part found."

\* The TypeError of reading property p of undefined or null.
TypeError(t, p) ==
  Err("Cannot read properties of " \o t \o " (reading '" \o p \o "')")

\* error.message
MessageOf(e) ==
  CASE e.t \in {"undefined", "null"} -> Thrown(TypeError(e.t, "message"))
    [] e.t = "error" -> Returned(Str(e.message))
    [] e.t = "object" -> GetProp(e, "message")
    [] OTHER -> Returned(Undefined)

Sent(r) == [throws |-> FALSE, sent |-> <<r>>, error |-> Undefined]
Caught(e) == [throws |-> TRUE, sent |-> <<>>, error |-> e]

\* The try block from the point the awaited call settles with outcome o;
\* d is the disease, e the engine the process runs on.
TryBlock(d, o, e) ==
  IF o.kind = "reject" THEN Caught(o.value)
  ELSE IF o.value.t \in {"undefined", "null"}
    THEN Caught(TypeError(o.value.t, "candidates"))
  ELSE LET text == jsonString(o.value)
       IN IF ~ToBoolean(text)
            THEN Sent(ResJson(500, Str("Failed to generate treatment data."),
                              Str(blockReason(o.value)), Undefined, Undefined))
          ELSE LET data == JSONparse(text.toks, e)
               IN IF data.throws THEN Caught(data.error)
                  ELSE Sent(ResJson(200, Undefined, Undefined, d, data.v))

\* The catch block: reading error.message may itself throw.
CatchBlock(e) ==
  LET m == MessageOf(e)
  IN IF m.throws THEN [pc |-> "escaped", responses |-> <<>>]
     ELSE [pc |-> "done",
           responses |-> <<ResJson(500,
                             Str("Failed to process request due to an internal API error."),
                             m.v, Undefined, Undefined)>>]

\* The handler from the await to its end.
Continuation(d, o, e) ==
  LET t == TryBlock(d, o, e)
  IN IF t.throws THEN CatchBlock(t.error)
     ELSE [pc |-> "done", responses |-> t.sent]

\* The mutant of disease: a variable of the module that every invocation
\* shares, holding what the first request posted.
diseaseShared(r) == GetProp(body[1], "disease")

\* const { disease } = req.body, local to the invocation for request r.
disease(r) == GetProp(body[r], "disease")

-----------------------------------------------------------------------------
(* Inputs, initial state and actions *)

Keys == {Undefined, Str(""), Str("AIza-key")}

Diseases ==
  { Str(""), Null, Num(0), Bool(FALSE),
    Str("Rust"), Num(5),
    Obj(<<Entry("toString", Num(1))>>) }

Bodies == {Obj(<<>>)} \cup {Obj(<<Entry("disease", d)>>) : d \in Diseases}

\* What the runtime does with an unhandled rejection: it only warns and the
\* process goes on, or it ends the process.
HostReactions == {"listening", "crashed"}

Init ==
  /\ apiKey \in Keys
  /\ engine \in Engines
  /\ proc = "start"
  /\ unhandled = FALSE
  /\ client = Undefined
  /\ body = [r \in Reqs |-> Undefined]
  /\ pc = [r \in Reqs |-> "idle"]
  /\ calls = [r \in Reqs |-> <<>>]
  /\ settled = [r \in Reqs |-> Pending]
  /\ responses = [r \in Reqs |-> <<>>]

\* The mutant of Startup: the credential check is missing.
StartupNoCheck ==
  /\ proc = "start"
  /\ proc' = "listening"
  /\ client' = [t |-> "client", apiKey |-> apiKey]
  /\ UNCHANGED <<apiKey, engine, unhandled, body, pc, calls, settled, responses>>

\* Module top level: exit without the credential, else build the client and listen.
Startup ==
  /\ proc = "start"
  /\ IF ~ToBoolean(apiKey)
       THEN proc' = "exited" /\ client' = client
       ELSE proc' = "listening" /\ client' = [t |-> "client", apiKey |-> apiKey]
  /\ UNCHANGED <<apiKey, engine, unhandled, body, pc, calls, settled, responses>>

\* A POST /api/treatment with parsed body b arrives and runs to its await or
\* end.  A request arrives in a turn of its own, after the rejections of the
\* turn before have been dealt with.
Post(r, b) ==
  /\ proc = "listening"
  /\ ~unhandled
  /\ pc[r] = "idle"
  /\ body' = [body EXCEPT ![r] = b]
  /\ LET h == HandlerSync(disease(r)')
     IN /\ pc' = [pc EXCEPT ![r] = h.pc]
        /\ calls' = [calls EXCEPT ![r] = h.calls]
        /\ responses' = [responses EXCEPT ![r] = h.responses]
        /\ unhandled' = (h.pc = "escaped")
  /\ UNCHANGED <<apiKey, engine, proc, client, settled>>

\* The call of request r settles with o and the handler runs on to its end;
\* this may be in the turn in which another handler's promise rejected.
\* A process that has ended resumes nothing.
Resume(r, o) ==
  /\ proc = "listening"
  /\ pc[r] = "awaiting"
  /\ settled' = [settled EXCEPT ![r] = o]
  /\ LET k == Continuation(disease(r).v, o, engine)
     IN /\ pc' = [pc EXCEPT ![r] = k.pc]
        /\ responses' = [responses EXCEPT ![r] = k.responses]
        /\ unhandled' = (unhandled \/ k.pc = "escaped")
  /\ UNCHANGED <<apiKey, engine, proc, client, body, calls>>

\* The turn ends with a rejected handler promise nobody handles: the runtime
\* warns, or ends the process.
UnhandledRejection ==
  /\ proc = "listening"
  /\ unhandled
  /\ unhandled' = FALSE
  /\ proc' \in HostReactions
  /\ UNCHANGED <<apiKey, engine, client, body, pc, calls, settled, responses>>

Next ==
  \/ Startup
  \/ \E r \in Reqs, b \in Bodies : Post(r, b)
  \/ \E r \in Reqs, o \in Outcomes : Resume(r, o)
  \/ UnhandledRejection

Spec == Init /\ [][Next]_vars

-----------------------------------------------------------------------------
(* Vocabulary of the properties *)

posted(r) == GetProp(body[r], "disease").v
NonEmptyString(v) == v.t = "string" /\ v.s # ""
Finished(r) == pc[r] \in {"done", "escaped"}
Resumed(r) == Finished(r) /\ settled[r] # Pending
Only(r) == responses[r][1]
NotJsonTexts == {TruncatedText, ProseText, MissingColonText, TrailingJunkText}

\* The call settled with a non-empty text that is not JSON.
NotJson(o) ==
  /\ o.kind = "resolve"
  /\ o.value.t \notin {"undefined", "null"}
  /\ ToBoolean(jsonString(o.value))
  /\ ~ParseText(jsonString(o.value).toks).ok

\* The message each engine gives for the texts of NotJsonTexts, as observed.
ObservedMessage(e, x) ==
  CASE x = ProseText ->
         IF e = "node18" THEN "Unexpected token j in JSON at position 0"
         ELSE "Unexpected token 'j', \"junk junk\" is not valid JSON"
    [] x = TruncatedText ->
         IF e = "node18" THEN "Unexpected end of JSON input"
         ELSE IF e = "node20"
           THEN "Expected double-quoted property name in JSON at position 22"
         ELSE "Expected double-quoted property name in JSON at position 22 (line 1 column 23)"
    [] x = MissingColonText ->
         IF e = "node18" THEN "Unexpected token } in JSON at position 34"
         ELSE IF e = "node20"
           THEN "Unexpected token '}', ...\"iological\"}\" is not valid JSON"
         ELSE "Expected ':' after property name in JSON at position 34 (line 1 column 35)"
    [] x = TrailingJunkText ->
         IF e = "node18" THEN "Unexpected token j in JSON at position 5"
         ELSE IF e = "node20"
           THEN "Unexpected non-whitespace character after JSON at position 5"
         ELSE "Unexpected non-whitespace character after JSON at position 5 (line 1 column 6)"

\* A TreatmentResult: three string fields and a prevention list of five strings.
IsTreatmentResult(v) ==
  /\ v.t = "object"
  /\ \A k \in {"organic", "biological", "chemical"} : GetProp(v, k).v.t = "string"
  /\ GetProp(v, "prevention").v.t = "array"
  /\ Len(GetProp(v, "prevention").v.a) = 5
  /\ \A i \in 1..5 : GetProp(v, "prevention").v.a[i].t = "string"

\* The settled call gave a response object without a usable text part.
NoText(o) ==
  /\ o.kind = "resolve"
  /\ o.value.t \notin {"undefined", "null"}
  /\ ~ToBoolean(jsonString(o.value))

\* Some safety rating of the first candidate is marked blocked.
AnyRatingBlocked(o) ==
  /\ Len(o.value.candidates) > 0
  /\ \E i \in 1..Len(o.value.candidates[1].safetyRatings) :
       o.value.candidates[1].safetyRatings[i].blocked

-----------------------------------------------------------------------------
(* Properties *)

\* C1: a request whose body has no disease field, or an empty disease, is
\* answered with exactly one response, 400 { error: "Disease name is
\* required." }, and no generateContent call is issued for it.
C1_MissingDiseaseIs400 ==
  \A r \in Reqs :
    (pc[r] # "idle" /\ posted(r) \in {Undefined, Str("")}) =>
      /\ pc[r] = "done"
      /\ calls[r] = <<>>
      /\ Len(responses[r]) = 1
      /\ Only(r).status = 400
      /\ Only(r).body = [error |-> Str("Disease name is required."),
                         details |-> Undefined, disease |-> Undefined,
                         data |-> Undefined]

C1_Witness ==
  \E r \in Reqs : pc[r] = "done" /\ body[r] = Obj(<<>>) /\ Len(responses[r]) = 1

\* C2: every 200 response carries a schema-conformant TreatmentResult (all four
\* keys, prevention of exactly five strings); a reply that parses but is
\* partial never produces a 200 response.
C2_SuccessIsConformant ==
  \A r \in Reqs : \A i \in 1..Len(responses[r]) :
    responses[r][i].status = 200 => IsTreatmentResult(responses[r][i].body.data)

\* C3: a disease that is anything but a non-empty string is answered 400 before
\* any external call, so a call is only ever issued for a non-empty string.
C3_DiseaseIsNonEmptyString ==
  \A r \in Reqs :
    /\ (pc[r] # "idle" /\ ~NonEmptyString(posted(r))) =>
         /\ calls[r] = <<>>
         /\ Len(responses[r]) = 1
         /\ Only(r).status = 400
    /\ calls[r] # <<>> => NonEmptyString(posted(r))

\* C4: a reply without a text part is answered 500 "Failed to generate
\* treatment data." with details "Response blocked by safety settings." when
\* any safety rating of the candidate is marked blocked, and "Empty response
\* or no text part found." otherwise.
C4_BlockReasonFollowsRatings ==
  \A r \in Reqs :
    (Resumed(r) /\ NoText(settled[r])) =>
      /\ Len(responses[r]) = 1
      /\ Only(r).status = 500
      /\ Only(r).body.error = Str("Failed to generate treatment data.")
      /\ Only(r).body.details =
           Str(IF AnyRatingBlocked(settled[r])
                 THEN "Response blocked by safety settings."
                 ELSE "Empty response or no text part found.")

\* C5: when the external call rejects with E, whatever E is, the request is
\* answered 500 with details equal to E's message and never 200.
C5_RejectionIs500WithMessage ==
  \A r \in Reqs :
    (Resumed(r) /\ settled[r].kind = "reject") =>
      /\ Len(responses[r]) = 1
      /\ Only(r).status = 500
      /\ Only(r).body.details =
           (IF settled[r].value.t = "error"
              THEN Str(settled[r].value.message) ELSE Undefined)

\* The keys a response body carries on the wire.
KeysOf(b) == {k \in {"error", "details", "disease", "data"} : b[k] # Undefined}

\* C6 as claimed: a non-empty text that is not JSON is answered with one 500,
\* never 200, with an error string and a details string, and it is reported
\* in the failure class of the no-text case: with the error that a reply
\* without text gets.
C6_ReportedAsGenerationFailure ==
  \A r \in Reqs :
    (Resumed(r) /\ NotJson(settled[r])) =>
      /\ Len(responses[r]) = 1
      /\ Only(r).status = 500
      /\ NonEmptyString(Only(r).body.error)
      /\ NonEmptyString(Only(r).body.details)
      /\ \A q \in Reqs :
           (Resumed(q) /\ NoText(settled[q])) =>
             /\ Len(responses[q]) = 1
             /\ Only(q).body.error = Only(r).body.error

\* C6 as amended: a non-empty text that is not JSON is answered with exactly
\* one response, 500, never 200, whose body has the keys error and details:
\* error is "Failed to process request due to an internal API error." and
\* details the message the engine gives the parser's SyntaxError for that
\* text.  It is reported as a call that rejected with an Error is, and not
\* with the error of the no-text case.
C6_NotJsonIs500 ==
  /\ \A x \in NotJsonTexts : NotJson(Resolve(TextReply(x)))
  /\ \A r \in Reqs :
       (Resumed(r) /\ NotJson(settled[r])) =>
         /\ pc[r] = "done"
         /\ Len(responses[r]) = 1
         /\ Only(r).status = 500
         /\ Only(r).body.error =
              Str("Failed to process request due to an internal API error.")
         /\ jsonString(settled[r].value).toks \in NotJsonTexts
         /\ Only(r).body.details =
              Str(ObservedMessage(engine, jsonString(settled[r].value).toks))
         /\ KeysOf(Only(r).body) = {"error", "details"}
         /\ \A q \in Reqs :
              /\ (Resumed(q) /\ NoText(settled[q])) =>
                   /\ Len(responses[q]) = 1
                   /\ Only(q).status = 500
                   /\ Only(q).body.error # Only(r).body.error
              /\ (Resumed(q) /\ settled[q].kind = "reject"
                              /\ settled[q].value.t = "error") =>
                   /\ Len(responses[q]) = 1
                   /\ Only(q).status = 500
                   /\ Only(q).body.error = Only(r).body.error

C6_Witness ==
  \E r, q \in Reqs :
    /\ pc[r] = "done" /\ settled[r] = Resolve(TextReply(MissingColonText))
    /\ Len(responses[r]) = 1
    /\ pc[q] = "done" /\ NoText(settled[q])

\* C7: no exception leaves the handler, and a finished request has exactly one
\* response, of status 200, 400 or 500, with an error string when 400 or 500.
C7_NothingEscapes ==
  \A r \in Reqs :
    /\ pc[r] # "escaped"
    /\ pc[r] = "done" =>
         /\ Len(responses[r]) = 1
         /\ Only(r).status \in {200, 400, 500}
         /\ Only(r).status \in {400, 500} => Only(r).body.error.t = "string"

\* C8: without the credential (unset or empty) the process never listens, no
\* request is handled and no call is made; a process that listens, or that
\* has handled a request, was started with a credential.
C8_NoKeyNoServing ==
  /\ apiKey \in {Undefined, Str("")} =>
       /\ proc \in {"start", "exited"}
       /\ \A r \in Reqs : pc[r] = "idle" /\ calls[r] = <<>> /\ responses[r] = <<>>
  /\ proc = "listening" => NonEmptyString(apiKey)
  /\ (\E r \in Reqs : pc[r] # "idle") =>
       (NonEmptyString(apiKey) /\ proc \in {"listening", "crashed"})

C8_Witness == proc = "exited" /\ apiKey = Undefined

\* C9: each response depends only on the request it answers and the reply to
\* that request's own call: a 200 response echoes the disease of its request
\* and carries the parse of its own reply; the call a request issues is the
\* one for its own disease; two finished requests with equal bodies and
\* equal replies have equal responses; and no invocation writes what another
\* reads: a request not yet posted has nothing recorded for it, a suspended
\* one has no reply and no response, and the client stays as startup built
\* it.
C9_RequestsIndependent ==
  /\ \A r \in Reqs : \A i \in 1..Len(responses[r]) :
       responses[r][i].status = 200 =>
         /\ responses[r][i].body.disease = posted(r)
         /\ settled[r].kind = "resolve"
         /\ responses[r][i].body.data
              = JSONparse(jsonString(settled[r].value).toks, engine).v
         /\ settled[r] = Resolve(TextReply(OnlyOrganicText)) =>
              responses[r][i].body.data = Obj(<<Entry("organic", Str("neem oil"))>>)
  /\ \A r \in Reqs :
       calls[r] # <<>> => calls[r] = IssueCalls(prompt(posted(r)).s)
  /\ \A r, q \in Reqs :
       (Finished(r) /\ Finished(q) /\ body[r] = body[q] /\ settled[r] = settled[q])
         => (responses[r] = responses[q] /\ pc[r] = pc[q])
  /\ \A r \in Reqs :
       /\ pc[r] = "idle" =>
            /\ body[r] = Undefined /\ calls[r] = <<>>
            /\ settled[r] = Pending /\ responses[r] = <<>>
       /\ pc[r] = "awaiting" => (settled[r] = Pending /\ responses[r] = <<>>)
  /\ proc \in {"listening", "crashed"} => client = [t |-> "client", apiKey |-> apiKey]

C9_Witness ==
  /\ pc[1] = "done" /\ pc[2] = "done"
  /\ Len(responses[1]) = 1 /\ Len(responses[2]) = 1
  /\ Only(1).status = 200 /\ Only(2).status = 200
  /\ Only(1).body.disease # Only(2).body.disease
  /\ Only(1).body.data # Only(2).body.data

\* C10: at most one generateContent call per request and no retry; a request
\* with a non-empty string disease issues exactly one; a request that issued
\* a call has no response until the call has settled.
C10_OneCallNoRetry ==
  \A r \in Reqs :
    /\ Len(calls[r]) <= 1
    /\ (pc[r] # "idle" /\ NonEmptyString(posted(r))) => Len(calls[r]) = 1
    /\ pc[r] = "awaiting" => (Len(calls[r]) = 1 /\ responses[r] = <<>>)
    /\ (calls[r] # <<>> /\ responses[r] # <<>>) => settled[r] # Pending
    /\ settled[r] # Pending => Len(calls[r]) = 1

C10_Witness ==
  \E r \in Reqs :
    /\ pc[r] = "done"
    /\ settled[r].kind = "reject"
    /\ Len(calls[r]) = 1
    /\ Len(responses[r]) = 1

=============================================================================
